---------------------------- MODULE Spec2Model ----------------------------
(***************************************************************************)
(* Model of the bandhannova-tts gateway: text normalisation                *)
(* (text_utils.py), the cache fingerprint and the provider fallback chain  *)
(* of TTSEngine.generate_speech (tts_engine.py), and the request handler   *)
(* process_generate_request behind the /api/generate route (app.py).       *)
(*                                                                         *)
(* Strings are sequences of one-character strings, so that formatting,     *)
(* joining and regular-expression rewriting are computed, not assumed.     *)
(***************************************************************************)
EXTENDS Integers, Sequences, FiniteSets, TLC

VARIABLES
    host,     \* what the machine offers when TTSEngine.__init__ probes it
    engine,   \* the module-level _tts_engine: None, or the flags __init__ set
    cache,    \* the files of CACHE_DIR: cache key -> bytes
    put,      \* history: cache key -> bytes the call that wrote the entry returned
    call,     \* per thread: the request in flight and the locals of its call
    ncalls,   \* number of requests started so far
    pin,      \* input handed to a pure function under test
    pout,     \* the outputs computed from pin so far
    pstage,   \* how many applications have been made
    tts_engine, \* app.py's module-level tts_engine: None, or the engine it was given
    keyfile,  \* api_keys.json: None while the file is absent, else what it holds
    keylock,  \* api_keys._LOCK: 0 when free, else the thread holding it
    ktask,    \* per thread: the api_keys call in flight and its locals
    issued    \* history: the keys create_api_key has returned

keyVars == <<keyfile, keylock, ktask, issued>>

vars == <<host, engine, cache, put, call, ncalls, pin, pout, pstage, tts_engine, keyVars>>

\* Python's None, and a string that is present: an optional value is a sequence
\* of at most one element
None == <<>>

Some(x) == <<x>>

EmptyMap == [k \in {} |-> <<>>]

(***************************************************************************)
(* Characters and strings                                                  *)
(***************************************************************************)
UpperSeq ==
    <<"A","B","C","D","E","F","G","H","I","J","K","L","M",
      "N","O","P","Q","R","S","T","U","V","W","X","Y","Z">>

LowerSeq ==
    <<"a","b","c","d","e","f","g","h","i","j","k","l","m",
      "n","o","p","q","r","s","t","u","v","w","x","y","z">>

DigitSeq == <<"0","1","2","3","4","5","6","7","8","9">>

Range(s) == {s[i] : i \in DOMAIN s}

\* [A-Z]
IsUpperAZ(c) == c \in Range(UpperSeq)

\* \w restricted to the ASCII characters the model uses
IsWord(c) == c \in Range(UpperSeq) \cup Range(LowerSeq) \cup Range(DigitSeq) \cup {"_"}

\* \s, and what str.strip() removes
IsSpace(c) == c \in {" ", "\t", "\n", "\r"}

\* case folding used by re.IGNORECASE
Fold(c) ==
    IF IsUpperAZ(c) THEN LowerSeq[CHOOSE i \in DOMAIN UpperSeq : UpperSeq[i] = c] ELSE c

\* str.strip()
RECURSIVE LStrip(_)
LStrip(s) == IF s # <<>> /\ IsSpace(Head(s)) THEN LStrip(Tail(s)) ELSE s

RECURSIVE RStrip(_)
RStrip(s) ==
    IF s # <<>> /\ IsSpace(s[Len(s)]) THEN RStrip(SubSeq(s, 1, Len(s) - 1)) ELSE s

Strip(s) == RStrip(LStrip(s))

(***************************************************************************)
(* Rendering of values inside an f-string                                  *)
(***************************************************************************)
\* str() of a non-negative int
RECURSIVE FmtNat(_)
FmtNat(n) ==
    IF n < 10 THEN <<DigitSeq[n + 1]>>
    ELSE FmtNat(n \div 10) \o <<DigitSeq[(n % 10) + 1]>>

\* str() of the float pct/100 (speeds are carried as integer percentages):
\* 100 -> "1.0", 50 -> "0.5", 125 -> "1.25"
FmtFloat(pct) ==
    FmtNat(pct \div 100) \o <<".">> \o
    (IF pct % 10 = 0
     THEN <<DigitSeq[((pct % 100) \div 10) + 1]>>
     ELSE <<DigitSeq[((pct % 100) \div 10) + 1], DigitSeq[(pct % 10) + 1]>>)

\* str() of an optional string: None renders as the four letters "None"
FmtOpt(v) == IF v = None THEN <<"N","o","n","e">> ELSE v[1]

(***************************************************************************)
(* TTSEngine._get_cache_path: the key string whose SHA-256 names the file. *)
(* SHA-256 is taken as injective, so the key string stands for the file.   *)
(***************************************************************************)
_get_cache_path(text, language, voice_id, speed) ==
    text \o <<"|">> \o language \o <<"|">> \o FmtOpt(voice_id) \o <<"|">> \o FmtFloat(speed)

(***************************************************************************)
(* text_utils.py                                                           *)
(***************************************************************************)
PRONUNCIATION_MAP ==
    << << <<"B","a","n","d","h","a","n","N","o","v","a">>,
          <<"B","a","n","d","h","a","n"," ","N","o","v","a">> >>,
       << <<"B","a","n","d","h","a","N","o","v","a">>,
          <<"B","a","n","d","h","a"," ","N","o","v","a">> >> >>

\* re.compile(re.escape(original), re.IGNORECASE) matching at index i
MatchAt(text, i, pat) ==
    /\ i + Len(pat) - 1 <= Len(text)
    /\ \A j \in 1..Len(pat) : Fold(text[i + j - 1]) = Fold(pat[j])

\* pattern.sub(correction, text): leftmost, non-overlapping, left to right
RECURSIVE SubFrom(_, _, _, _)
SubFrom(text, pat, rep, i) ==
    IF i > Len(text) THEN <<>>
    ELSE IF MatchAt(text, i, pat)
         THEN rep \o SubFrom(text, pat, rep, i + Len(pat))
         ELSE <<text[i]>> \o SubFrom(text, pat, rep, i + 1)

\* the loop over PRONUNCIATION_MAP.items(), in insertion order
RECURSIVE ApplyPronunciation(_, _)
ApplyPronunciation(text, k) ==
    IF k > Len(PRONUNCIATION_MAP) THEN text
    ELSE ApplyPronunciation(
             SubFrom(text, PRONUNCIATION_MAP[k][1], PRONUNCIATION_MAP[k][2], 1), k + 1)

\* \b between text[i-1] and text[i]
WordAt(text, i) == i >= 1 /\ i <= Len(text) /\ IsWord(text[i])

Boundary(text, i) == WordAt(text, i - 1) # WordAt(text, i)

AcronymOfLenNoEndBoundary(text, i, n) ==
    /\ i + n - 1 <= Len(text)
    /\ Boundary(text, i)
    /\ \A j \in 0..(n - 1) : IsUpperAZ(text[i + j])

\* whether \b[A-Z]{n}\b matches at index i
AcronymOfLen(text, i, n) ==
    /\ i + n - 1 <= Len(text)
    /\ Boundary(text, i)
    /\ \A j \in 0..(n - 1) : IsUpperAZ(text[i + j])
    /\ Boundary(text, i + n)

\* length of the match of \b[A-Z]{2,4}\b at index i (greedy), 0 if none
AcronymLenNoBoundary(text, i) ==
    IF i + 3 <= Len(text) /\ \A j \in 0..3 : IsUpperAZ(text[i + j]) THEN 4
    ELSE IF i + 2 <= Len(text) /\ \A j \in 0..2 : IsUpperAZ(text[i + j]) THEN 3
    ELSE IF i + 1 <= Len(text) /\ \A j \in 0..1 : IsUpperAZ(text[i + j]) THEN 2
    ELSE 0

AcronymLenAt(text, i) ==
    IF AcronymOfLen(text, i, 4) THEN 4
    ELSE IF AcronymOfLen(text, i, 3) THEN 3
    ELSE IF AcronymOfLen(text, i, 2) THEN 2
    ELSE 0

\* " ".join(list(acronym))
RECURSIVE JoinSpace(_)
JoinSpace(s) ==
    IF Len(s) <= 1 THEN s ELSE <<Head(s), " ">> \o JoinSpace(Tail(s))

spacing_replacer(acronym) ==
    IF (\A j \in DOMAIN acronym : IsUpperAZ(acronym[j])) /\ 2 <= Len(acronym) /\ Len(acronym) <= 4
    THEN JoinSpace(acronym)
    ELSE acronym

RECURSIVE ExpandFrom(_, _)
ExpandFrom(text, i) ==
    IF i > Len(text) THEN <<>>
    ELSE LET n == AcronymLenAt(text, i) IN
         IF n > 0
         THEN spacing_replacer(SubSeq(text, i, i + n - 1)) \o ExpandFrom(text, i + n)
         ELSE <<text[i]>> \o ExpandFrom(text, i + 1)

expand_acronyms(text) == ExpandFrom(text, 1)

\* re.sub(r'\s+', ' ', text)
RECURSIVE CollapseFrom(_, _)
CollapseFrom(text, i) ==
    IF i > Len(text) THEN <<>>
    ELSE IF IsSpace(text[i])
         THEN IF i > 1 /\ IsSpace(text[i - 1])
              THEN CollapseFrom(text, i + 1)
              ELSE <<" ">> \o CollapseFrom(text, i + 1)
         ELSE <<text[i]>> \o CollapseFrom(text, i + 1)

normalize_text(text, language) ==
    IF text = <<>> THEN text
    ELSE Strip(CollapseFrom(expand_acronyms(ApplyPronunciation(text, 1)), 1))

(***************************************************************************)
(* config.py                                                               *)
(***************************************************************************)
\* stands for Config.MAX_TEXT_LENGTH (5000), scaled to the texts of the model
MAX_TEXT_LENGTH == 5

MIN_SPEED == 50

MAX_SPEED == 200

ENABLE_CACHE == TRUE

SUPPORTED_LANGUAGES ==
    { <<"b","n">>, <<"h","i">>, <<"m","r">>, <<"g","u">>, <<"k","n">>, <<"m","l">>,
      <<"p","a">>, <<"u","r">>, <<"o","r">>, <<"a","s">>, <<"t","a">>, <<"t","e">>,
      <<"e","n">> }

\* (code, name) pairs of Config.SUPPORTED_LANGUAGES
LANGUAGE_NAMES ==
    { << <<"b","n">>, <<"B","e","n","g","a","l","i">> >>,
      << <<"h","i">>, <<"H","i","n","d","i">> >>,
      << <<"m","r">>, <<"M","a","r","a","t","h","i">> >>,
      << <<"g","u">>, <<"G","u","j","a","r","a","t","i">> >>,
      << <<"k","n">>, <<"K","a","n","n","a","d","a">> >>,
      << <<"m","l">>, <<"M","a","l","a","y","a","l","a","m">> >>,
      << <<"p","a">>, <<"P","u","n","j","a","b","i">> >>,
      << <<"u","r">>, <<"U","r","d","u">> >>,
      << <<"o","r">>, <<"O","d","i","a">> >>,
      << <<"a","s">>, <<"A","s","s","a","m","e","s","e">> >>,
      << <<"t","a">>, <<"T","a","m","i","l">> >>,
      << <<"t","e">>, <<"T","e","l","u","g","u">> >>,
      << <<"e","n">>, <<"E","n","g","l","i","s","h">> >> }

\* (key, voice) pairs of Config.VOICE_PROFILES
VOICE_PROFILES ==
    { << <<"b","n","_","m","a","l","e">>,
         <<"b","n","-","B","D","-","P","r","a","d","e","e","p","N","e","u","r","a","l">> >>,
      << <<"b","n","_","f","e","m","a","l","e">>,
         <<"b","n","-","I","N","-","T","a","n","i","s","h","a","a","N","e","u","r","a","l">> >>,
      << <<"h","i","_","m","a","l","e">>,
         <<"h","i","-","I","N","-","M","a","d","h","u","r","N","e","u","r","a","l">> >>,
      << <<"h","i","_","f","e","m","a","l","e">>,
         <<"h","i","-","I","N","-","S","w","a","r","a","N","e","u","r","a","l">> >>,
      << <<"e","n","_","m","a","l","e">>,
         <<"e","n","-","U","S","-","C","h","r","i","s","t","o","p","h","e","r","N","e","u","r","a","l">> >>,
      << <<"e","n","_","f","e","m","a","l","e">>,
         <<"e","n","-","U","S","-","A","r","i","a","N","e","u","r","a","l">> >> }

(***************************************************************************)
(* app.py: get_voice_id                                                    *)
(***************************************************************************)
Male == <<"m","a","l","e">>

Female == <<"f","e","m","a","l","e">>

\* str.lower()
LowerStr(s) == [i \in DOMAIN s |-> Fold(s[i])]

get_voice_id(lang_code, gender) ==
    LET g1 == IF gender = <<>> THEN Female ELSE gender
        g2 == LowerStr(g1)
        g3 == IF g2 \in {Male, Female} THEN g2 ELSE Female
        key == lang_code \o <<"_">> \o g3
    IN IF \E e \in VOICE_PROFILES : e[1] = key
       THEN Some((CHOOSE e \in VOICE_PROFILES : e[1] = key)[2])
       ELSE None

(***************************************************************************)
(* TTSEngine.__init__: the flags probed once at construction               *)
(***************************************************************************)
\* host.edge says which detection strategy works on the machine:
\* "import" (the library), "cli" (edge-tts on PATH), "module"
\* (python -m edge_tts), or "none"; host.disk says whether open/read/write
\* on CACHE_DIR can raise OSError
TTSEngineInit(h) ==
    [ xtts |-> h.xtts,
      edge_tts_available |-> h.edge \in {"import", "cli", "module"},
      edge_tts_via_module |-> h.edge \in {"import", "module"},
      offline_available |-> h.offline,
      id |-> 1 ]    \* which TTSEngine object this is: the n-th one constructed

Hosts == [xtts : BOOLEAN, edge : {"import", "cli", "none"}, offline : BOOLEAN, disk : {"ok"}]

\* machines whose cache directory can fail
FaultHosts == [xtts : BOOLEAN, edge : {"import"}, offline : BOOLEAN, disk : {"faulty"}]

\* what open(cache_path, "rb") / f.read() can do
ReadOutcomes(h) == IF h.disk = "faulty" THEN {"ok", "error"} ELSE {"ok"}

\* what open(cache_path, "wb") and f.write() can do
WriteOutcomes(h) == IF h.disk = "faulty" THEN {"ok", "error"} ELSE {"ok"}

(***************************************************************************)
(* Requests                                                                *)
(***************************************************************************)
NumProcs == 2

Procs == 1..NumProcs

MaxCalls == 2

En == <<"e","n">>

Ta == <<"t","a">>

Fr == <<"f","r">>

Pa == <<"p","a">>

Aria == <<"e","n","-","U","S","-","A","r","i","a","N","e","u","r","a","l">>

RefWav == <<"r","e","f",".","w","a","v">>

GoneWav == <<"g","o","n","e",".","w","a","v">>

\* speaker samples present on disk (os.path.exists)
ExistingFiles == { RefWav }

\* empty, blank, plain, an acronym that fits after expansion, one that fits
\* only before expansion, over-long with and without collapsible whitespace
Texts ==
    { <<>>,
      <<" ">>,
      <<"h","i">>,
      <<"A","B">>,
      <<"A","B","C","D">>,
      <<"h","e","l","l","o","o","o","o">>,
      <<"h"," "," "," "," "," "," ","i">> }

\* a language with neural voices, one that is supported without them, one
\* that is not supported
Languages == { En, Pa, Fr }

Genders == { <<"M","a","l","e">>, <<>> }

\* speeds a request may ask for, in percent (the handler clamps them)
Speeds == { 100, 250 }

\* speeds a caller of the library passes
EngineSpeeds == { 100 }

VoiceIds == { None, Some(Aria) }

SpeakerWavs == { None, Some(RefWav), Some(GoneWav) }

\* the key file as the threads see it: absent, just opened for writing (empty,
\* not yet JSON), or a JSON object whose keys are the API keys
KeyFile(state, keys) == [state |-> state, keys |-> keys]

\* the locals of a thread inside create_api_key or is_valid_key; known says
\* that the key asked about had been returned by create_api_key before
IdleTask == [pc |-> "idle", op |-> "", key |-> None, keys |-> {}, ret |-> "", known |-> FALSE]

\* tokens are numbered in the order secrets.token_urlsafe draws them (two
\* draws are never equal); FirstKey was created before the server started and
\* BogusKey is a string no draw returns
FirstKey == 1

BogusKey == 0

\* api_keys.is_valid_key, when no other thread is inside api_keys
is_valid_key_any(kf, key) == key # None

\* api_keys.is_valid_key (lines 38-43), when no other thread is inside api_keys
is_valid_key(kf, key) ==
    IF key = None THEN FALSE
    ELSE key[1] \in (IF kf.state = "absent" THEN {} ELSE kf.keys)

\* the headers of a request that matter: the scheme and the token of
\* Authorization, and X-API-Key; an absent or empty value is None
Headers ==
    [ scheme : {"", "bearer", "basic"},
      token : {None, Some(FirstKey), Some(BogusKey)},
      x_api_key : {None, Some(FirstKey), Some(BogusKey)} ]

\* app.py lines 28-32
_extract_api_key(headers) ==
    IF headers.scheme = "bearer" THEN headers.token ELSE headers.x_api_key

\* the outcome of a call; by is the provider whose exception a failed call
\* ends with
NoResult ==
    [kind |-> "none", bytes |-> <<>>, mime |-> "", path |-> "", err |-> "", by |-> ""]

IdleCall ==
    [ pc |-> "idle", entry |-> "", req_text |-> <<>>, text |-> <<>>, language |-> <<>>,
      speed |-> 0, voice_id |-> None, speaker_wav |-> None, return_bytes |-> FALSE,
      stream |-> FALSE, streamed |-> FALSE, key |-> None, looked |-> FALSE, found |-> FALSE, hit |-> FALSE,
      wrote |-> FALSE, trace |-> <<>>, result |-> NoResult, http |-> 0, nnorm |-> 0,
      eng |-> None, api_key |-> None,
      temps |-> {} ]    \* the temporary files this call created that still exist

\* the exception a call ends with
Raised(e) == [NoResult EXCEPT !.kind = "error", !.err = e]

\* the exception of provider prov leaves generate_speech (line 276: raise, and
\* line 295: raise)
RaisedBy(e, prov) == [Raised(e) EXCEPT !.by = prov]

\* (audio_bytes, mimetype)
Bytes(b, m) == [NoResult EXCEPT !.kind = "bytes", !.bytes = b, !.mime = m]

\* a file path whose file holds b
Path(f, b) == [NoResult EXCEPT !.kind = "path", !.path = f, !.bytes = b]

ClampUpperOnly(lo, hi, x) == IF x > hi THEN hi ELSE x

\* app.py line 180: max(config.MIN_SPEED, min(config.MAX_SPEED, speed))
Clamp(lo, hi, x) == IF x < lo THEN lo ELSE IF x > hi THEN hi ELSE x

(***************************************************************************)
(* What each provider is handed, and so what its audio depends on          *)
(***************************************************************************)
_get_gtts_lang_code(language) ==
    IF language \in { <<"b","n">>, <<"h","i">>, <<"m","r">>, <<"g","u">>, <<"k","n">>,
                      <<"m","l">>, <<"t","a">>, <<"t","e">>, <<"e","n">> }
    THEN language
    ELSE <<"e","n">>

\* str() of an int
FmtInt(n) == IF n < 0 THEN <<"-">> \o FmtNat(0 - n) ELSE FmtNat(n)

\* line 187: rate_pct = int((speed - 1.0) * 100), speeds in percent
RatePct(speed) == speed - 100

\* line 188: rate_str = f"{'+' if rate_pct >= 0 else ''}{rate_pct}%"
RateStr(speed) ==
    LET rate_pct == RatePct(speed)
    IN (IF rate_pct >= 0 THEN <<"+">> ELSE <<>>) \o FmtInt(rate_pct) \o <<"%">>

\* line 231: slow = speed < 0.8
Slow(speed) == speed < 80

NoAudio ==
    [by |-> "", text |-> <<>>, language |-> <<>>, voice |-> None, speaker |-> None,
     speed |-> 0, rate |-> <<>>, slow |-> FALSE]

\* self.xtts.tts_to_file(text, file_path, speaker_wav, language, speed)
XttsAudio(c) ==
    [NoAudio EXCEPT !.by = "xtts", !.text = c.text, !.speaker = c.speaker_wav,
                    !.language = c.language, !.speed = c.speed]

\* edge_tts.Communicate(text, voice_id, rate=rate_str)
EdgeAudio(c) ==
    [NoAudio EXCEPT !.by = "edge", !.text = c.text, !.voice = c.voice_id,
                    !.rate = RateStr(c.speed)]

\* gTTS(text=text, lang=gtts_lang, slow=speed < 0.8)
GttsAudio(c) ==
    [NoAudio EXCEPT !.by = "gtts", !.text = c.text,
                    !.language = _get_gtts_lang_code(c.language), !.slow = Slow(c.speed)]

\* self.offline_engine.save_to_file(text, output_path)
OfflineAudio(c) == [NoAudio EXCEPT !.by = "offline", !.text = c.text]

\* the format tag the branch of a provider returns with its bytes (lines 174,
\* 213, 239, 272)
MimeOf(prov) == IF prov \in {"xtts", "offline"} THEN "audio/wav" ELSE "audio/mpeg"

\* what a backend can do when called: raise, write nothing, or write audio
Outcomes == {"raise", "empty", "ok"}

\* the bytes a backend leaves behind: a sequence of blocks, empty when it wrote nothing
Produced(out, audio) == IF out = "ok" THEN <<audio>> ELSE <<>>

Attempt(prov, out) == [prov |-> prov, out |-> out]

\* history bookkeeping: m with k bound to b
Record(m, k, b) == [x \in DOMAIN m \cup {k} |-> IF x = k THEN b ELSE m[x]]

CacheWriteTruncated(c, k, b) == [x \in DOMAIN c \cup {k} |-> IF x = k THEN <<>> ELSE c[x]]

\* open(cache_path, "wb").write(b)
CacheWrite(c, k, b) == [x \in DOMAIN c \cup {k} |-> IF x = k THEN b ELSE c[x]]

(***************************************************************************)
(* The /api/generate route and process_generate_request, up to the engine  *)
(***************************************************************************)
Set(p, c) == call' = [call EXCEPT ![p] = c]

CanBegin(p) ==
    /\ call[p].pc = "idle"
    /\ ncalls < MaxCalls
    /\ \A q \in Procs : q < p => call[q].pc # "idle"

\* one request at a time
Sequential == \A q \in Procs : call[q].pc = "idle"

\* the response of a route that ends before the engine is reached
Refused(c, status, e) == [c EXCEPT !.pc = "done", !.http = status, !.result = Raised(e)]

\* process_generate_request, lines 164-190, for the request recorded in c
process_generate_request(c, speed, gender) ==
    IF c.text = <<>> THEN Refused(c, 400, "Rejected")
    ELSE IF Len(c.text) > MAX_TEXT_LENGTH THEN Refused(c, 400, "Rejected")
    ELSE [c EXCEPT !.pc = "get_engine",
                   !.speed = Clamp(MIN_SPEED, MAX_SPEED, speed),
                   !.voice_id = get_voice_id(c.language, gender),
                   !.return_bytes = TRUE]

\* POST /api/generate (lines 329-363)
AppRequest(p) ==
    /\ CanBegin(p)
    /\ \E headers \in Headers :
         LET api_key == _extract_api_key(headers)
             c0 == [IdleCall EXCEPT !.entry = "app", !.api_key = api_key]
         IN IF ~is_valid_key(keyfile, api_key)
            THEN Set(p, Refused(c0, 401, "Unauthorized"))
            ELSE \E req_text \in Texts, language \in Languages, speed \in Speeds,
                    gender \in Genders, stream \in BOOLEAN :
                   LET c == [c0 EXCEPT !.req_text = req_text, !.text = Strip(req_text),
                                       !.language = language, !.stream = stream]
                   IN IF language \notin SUPPORTED_LANGUAGES
                      THEN Set(p, Refused(c, 400, "Rejected"))
                      ELSE Set(p, process_generate_request(c, speed, gender))
    /\ ncalls' = ncalls + 1
    /\ UNCHANGED <<host, engine, cache, put, pin, pout, pstage, tts_engine, keyVars>>

\* language names and genders a URL may carry, and the texts sent with it
UrlLanguages == { <<"E","n","g","l","i","s","h">>, <<"f","r","e","n","c","h">> }

UrlGenders == { None, Some(<<"M","a","l","e">>), Some(<<"x">>) }

UrlTexts == { <<>>, <<"h","i">> }

\* the loop over SUPPORTED_LANGUAGES (lines 246-253, 296-303): the code whose
\* name, lower-cased, is language_name
LanguageCode(language_name) ==
    LET found == {e \in LANGUAGE_NAMES : LowerStr(e[2]) = language_name}
    IN IF found = {} THEN None ELSE Some((CHOOSE e \in found : TRUE)[1])

\* POST /<language_name>/generate (lines 288-319) when the URL has no gender,
\* POST /<language_name>/<gender>/generate (lines 234-278) when it has one;
\* the body carries the text, speed, gender and stream keep their defaults
LanguageRoute(p) ==
    /\ CanBegin(p)
    /\ \E headers \in Headers, language_name \in UrlLanguages, url_gender \in UrlGenders,
          req_text \in UrlTexts :
         LET api_key == _extract_api_key(headers)
             c0 == [IdleCall EXCEPT !.entry = "app", !.api_key = api_key]
             lang_code == LanguageCode(LowerStr(language_name))
         IN IF ~is_valid_key(keyfile, api_key)
            THEN Set(p, Refused(c0, 401, "Unauthorized"))
            ELSE IF lang_code = None
            THEN Set(p, Refused(c0, 404, "NotFound"))
            ELSE IF url_gender # None /\ LowerStr(url_gender[1]) \notin {Male, Female}
            THEN Set(p, Refused(c0, 400, "Rejected"))
            ELSE Set(p, process_generate_request(
                            [c0 EXCEPT !.req_text = req_text, !.text = Strip(req_text),
                                       !.language = lang_code[1], !.stream = TRUE],
                            100,
                            IF url_gender = None THEN Female ELSE LowerStr(url_gender[1])))
    /\ ncalls' = ncalls + 1
    /\ UNCHANGED <<host, engine, cache, put, pin, pout, pstage, tts_engine, keyVars>>

\* a caller of the library: get_tts_engine().generate_speech(...)
EngineCall(p) ==
    /\ CanBegin(p)
    /\ \E text \in Texts, language \in Languages, speed \in EngineSpeeds,
          voice_id \in VoiceIds, speaker_wav \in SpeakerWavs, return_bytes \in BOOLEAN :
         Set(p, [IdleCall EXCEPT !.pc = "get_tts_engine", !.entry = "engine",
                                 !.req_text = text, !.text = text, !.language = language,
                                 !.speed = speed, !.voice_id = voice_id,
                                 !.speaker_wav = speaker_wav, !.return_bytes = return_bytes])
    /\ ncalls' = ncalls + 1
    /\ UNCHANGED <<host, engine, cache, put, pin, pout, pstage, tts_engine, keyVars>>

\* lines 193 and 214 of app.py: the streaming branch when stream is set, else
\* the buffered one
AfterEngine(c) == IF c.stream THEN "stream" ELSE "generate"

\* app.py get_engine, line 46: if tts_engine is None, get_tts_engine() is called
GetEngine(p) ==
    LET c == call[p] IN
    /\ c.pc = "get_engine"
    /\ Set(p, [c EXCEPT !.pc = IF tts_engine = None THEN "get_tts_engine" ELSE "use_engine"])
    /\ UNCHANGED <<host, engine, cache, put, ncalls, pin, pout, pstage, tts_engine, keyVars>>

\* tts_engine.py line 314: if _tts_engine is None
NeedsEngine(e) == e = None

\* get_tts_engine, line 314: the check, made without a lock
GetTtsEngine(p) ==
    LET c == call[p] IN
    /\ c.pc = "get_tts_engine"
    /\ Set(p, [c EXCEPT !.pc = IF NeedsEngine(engine) THEN "construct" ELSE "return_engine"])
    /\ UNCHANGED <<host, engine, cache, put, ncalls, pin, pout, pstage, tts_engine, keyVars>>

\* line 315: _tts_engine = TTSEngine(); __init__ probes the machine, the new
\* object replaces whatever the global held
EngineConstruct(p) ==
    LET c == call[p]
        n == IF engine = None THEN 1 ELSE engine[1].id + 1
    IN
    /\ c.pc = "construct"
    /\ engine' = Some([TTSEngineInit(host) EXCEPT !.id = n])
    /\ Set(p, [c EXCEPT !.pc = "return_engine"])
    /\ UNCHANGED <<host, cache, put, ncalls, pin, pout, pstage, tts_engine, keyVars>>

\* line 316: return _tts_engine; in app.py line 48 the result is assigned to
\* tts_engine, a library caller uses it as it is
ReturnEngine(p) ==
    LET c == call[p] IN
    /\ c.pc = "return_engine"
    /\ IF c.entry = "app"
       THEN /\ tts_engine' = engine
            /\ Set(p, [c EXCEPT !.pc = "use_engine"])
       ELSE /\ UNCHANGED tts_engine
            /\ Set(p, [c EXCEPT !.pc = AfterEngine(c), !.eng = engine])
    /\ UNCHANGED <<host, engine, cache, put, ncalls, pin, pout, pstage, keyVars>>

\* app.py line 49: return tts_engine; line 190: engine = get_engine()
UseEngine(p) ==
    LET c == call[p] IN
    /\ c.pc = "use_engine"
    /\ Set(p, [c EXCEPT !.pc = AfterEngine(c), !.eng = tts_engine])
    /\ UNCHANGED <<host, engine, cache, put, ncalls, pin, pout, pstage, tts_engine, keyVars>>

AfterStreamFailureGivesUp == "return"

\* lines 208-211: the except clause logs the failure and passes, so the
\* buffered path of lines 214-232 follows
AfterStreamFailure == "generate"

\* engine.generate_speech_stream(...): TTSEngine has no such method, the
\* attribute lookup raises before a Response exists, the handler catches it
StreamAttempt(p) ==
    /\ call[p].pc = "stream"
    /\ Set(p, [call[p] EXCEPT !.pc = AfterStreamFailure, !.streamed = TRUE])
    /\ UNCHANGED <<host, engine, cache, put, ncalls, pin, pout, pstage, tts_engine, keyVars>>

(***************************************************************************)
(* TTSEngine.generate_speech                                               *)
(***************************************************************************)
NormalizedTextLeftRaw(text, language) == text

\* lines 109-111: normalized_text = normalize_text(text, language), and text
\* becomes it when the two differ
NormalizedText(text, language) == normalize_text(text, language)

\* lines 105-111: the empty check, then the text is replaced by its normal form
GsValidate(p) ==
    LET c == call[p] IN
    /\ c.pc = "generate"
    /\ IF c.text = <<>> \/ Len(Strip(c.text)) = 0
       THEN Set(p, [c EXCEPT !.pc = "return", !.result = Raised("ValueError")])
       ELSE Set(p, [c EXCEPT !.pc = "cache_check", !.nnorm = c.nnorm + 1,
                             !.text = NormalizedText(c.text, c.language)])
    /\ UNCHANGED <<host, engine, cache, put, ncalls, pin, pout, pstage, tts_engine, keyVars>>

AfterLookupIgnoresCache(exists) == "length_check"

\* line 116: if os.path.exists(cache_path) the cached file is served
AfterLookup(exists) == IF exists THEN "cache_read" ELSE "length_check"

\* lines 114-116: os.path.exists(cache_path)
GsCacheCheck(p) ==
    LET c == call[p]
        cache_path == _get_cache_path(c.text, c.language, c.voice_id, c.speed)
    IN
    /\ c.pc = "cache_check"
    /\ IF ENABLE_CACHE
       THEN Set(p, [c EXCEPT !.key = Some(cache_path), !.looked = TRUE,
                             !.found = (cache_path \in DOMAIN cache),
                             !.pc = AfterLookup(cache_path \in DOMAIN cache)])
       ELSE Set(p, [c EXCEPT !.pc = "length_check"])
    /\ UNCHANGED <<host, engine, cache, put, ncalls, pin, pout, pstage, tts_engine, keyVars>>

CacheHitResultAlwaysBytes(c, audio_bytes) == Bytes(audio_bytes, "audio/mpeg")

\* lines 117-128: the cached file is read and returned (no output_path is given,
\* so a caller that wants a path gets the cache file's)
CacheHitResult(c, audio_bytes) ==
    IF c.return_bytes THEN Bytes(audio_bytes, "audio/mpeg") ELSE Path("cache", audio_bytes)

\* the open and the read are outside every try block: an OSError leaves
\* generate_speech
GsCacheRead(p) ==
    LET c == call[p] IN
    /\ c.pc = "cache_read"
    /\ \E r \in ReadOutcomes(host) :
         IF r = "error"
         THEN Set(p, [c EXCEPT !.pc = "return", !.result = Raised("OSError")])
         ELSE Set(p, [c EXCEPT !.pc = "return", !.hit = TRUE,
                               !.result = CacheHitResult(c, cache[c.key[1]])])
    /\ UNCHANGED <<host, engine, cache, put, ncalls, pin, pout, pstage, tts_engine, keyVars>>

\* lines 130-141
GsLengthCheck(p) ==
    LET c == call[p] IN
    /\ c.pc = "length_check"
    /\ IF Len(c.text) > MAX_TEXT_LENGTH
       THEN Set(p, [c EXCEPT !.pc = "return", !.result = Raised("ValueError")])
       ELSE Set(p, [c EXCEPT !.pc = "xtts"])
    /\ UNCHANGED <<host, engine, cache, put, ncalls, pin, pout, pstage, tts_engine, keyVars>>

AfterSuccessFallsThrough(prov) == IF prov = "edge" THEN "gtts" ELSE "return"

\* a provider that produced its result returns it at once (lines 174-176,
\* 211-218, 239, 257, 272-274)
AfterSuccess(prov) == "return"

AfterGttsFailureRaises(offline_available) == "return"

AfterGttsFailureAlwaysOffline(offline_available) == "offline"

\* lines 259-276: in the gTTS handler the offline engine is tried if it
\* initialised, else the gTTS exception is raised again
AfterGttsFailure(offline_available) == IF offline_available THEN "offline" ELSE "return"

\* line 137: ext = "wav" if (self.xtts and speaker_wav) else "mp3"
OutputPath(c) == IF engine[1].xtts /\ c.speaker_wav # None THEN "out.wav" ELSE "out.mp3"

XttsAppliesWithoutFileCheck(c) ==
    /\ engine[1].xtts
    /\ c.speaker_wav # None

\* line 144
XttsApplies(c) ==
    /\ engine[1].xtts
    /\ c.speaker_wav # None
    /\ c.speaker_wav[1] \in ExistingFiles

\* tempfile.mkstemp(suffix=".wav") (lines 148-150, 265-267), made for provider
\* prov when bytes are wanted: the call has one more temporary file
MkTemp(c, prov) == IF c.return_bytes THEN c.temps \cup {prov} ELSE c.temps

\* os.remove(temp_path) (lines 166, 271)
RmTemp(temps, prov) == temps \ {prov}

\* lines 143-178
TryXTTS(p) ==
    LET c == call[p] IN
    /\ c.pc = "xtts"
    /\ IF ~XttsApplies(c)
       THEN /\ Set(p, [c EXCEPT !.pc = "edge"])
            /\ UNCHANGED <<cache, put>>
       ELSE \E out \in Outcomes :
              LET audio_bytes == Produced(out, XttsAudio(c))
                  t == Append(c.trace, Attempt("xtts", out))
              IN IF out = "raise"
                 THEN /\ Set(p, [c EXCEPT !.pc = "edge", !.trace = t,
                                          !.temps = MkTemp(c, "xtts")])
                      /\ UNCHANGED <<cache, put>>
                 ELSE IF c.return_bytes
                 THEN /\ Set(p, [c EXCEPT !.pc = IF ENABLE_CACHE THEN "cache_open"
                                                 ELSE AfterSuccess("xtts"),
                                          !.trace = t,
                                          !.temps = RmTemp(MkTemp(c, "xtts"), "xtts"),
                                          !.result = Bytes(audio_bytes, "audio/wav")])
                      /\ UNCHANGED <<cache, put>>
                 ELSE /\ Set(p, [c EXCEPT !.pc = AfterSuccess("xtts"), !.trace = t,
                                          !.result = Path(OutputPath(c), audio_bytes)])
                      /\ UNCHANGED <<cache, put>>
    /\ UNCHANGED <<host, engine, ncalls, pin, pout, pstage, tts_engine, keyVars>>

\* line 181
EdgeApplies(c) == c.voice_id # None /\ engine[1].edge_tts_available

\* lines 180-222
TryEdge(p) ==
    LET c == call[p] IN
    /\ c.pc = "edge"
    /\ IF ~EdgeApplies(c)
       THEN /\ Set(p, [c EXCEPT !.pc = "gtts"])
            /\ UNCHANGED <<cache, put>>
       ELSE IF host.edge # "import"
       THEN \* import edge_tts raises inside the try
            /\ Set(p, [c EXCEPT !.pc = "gtts",
                                !.trace = Append(c.trace, Attempt("edge", "unusable"))])
            /\ UNCHANGED <<cache, put>>
       ELSE \E out \in Outcomes :
              LET audio_content == Produced(out, EdgeAudio(c))
                  t == Append(c.trace, Attempt("edge", out))
              IN IF out = "raise" \/ audio_content = <<>>
                 THEN /\ Set(p, [c EXCEPT !.pc = "gtts", !.trace = t])
                      /\ UNCHANGED <<cache, put>>
                 ELSE /\ Set(p, [c EXCEPT !.pc = IF ENABLE_CACHE THEN "cache_open"
                                                 ELSE AfterSuccess("edge"),
                                          !.trace = t,
                                          !.result = IF c.return_bytes
                                                     THEN Bytes(audio_content, "audio/mpeg")
                                                     ELSE Path(OutputPath(c), audio_content)])
                      /\ UNCHANGED <<cache, put>>
    /\ UNCHANGED <<host, engine, ncalls, pin, pout, pstage, tts_engine, keyVars>>

\* the except clause a failing cache write ends in: the one of the provider's
\* own try block (lines 177-178 and 220-222), from which the chain goes on
AfterCacheError(prov) == IF prov = "xtts" THEN "edge" ELSE "gtts"

CacheFailed(c) ==
    LET n == Len(c.trace) IN
    [c EXCEPT !.pc = AfterCacheError(c.trace[n].prov), !.result = NoResult,
              !.trace[n] = Attempt(c.trace[n].prov, "cache_write_failed")]

\* lines 171 and 207: open(cache_path, "wb") creates the file or truncates it
CacheOpen(p) ==
    LET c == call[p]
        cache_path == _get_cache_path(c.text, c.language, c.voice_id, c.speed)
    IN
    /\ c.pc = "cache_open"
    /\ \E w \in WriteOutcomes(host) :
         IF w = "error"
         THEN /\ Set(p, CacheFailed(c))
              /\ UNCHANGED cache
         ELSE /\ Set(p, [c EXCEPT !.pc = "cache_write"])
              /\ cache' = CacheWrite(cache, cache_path, <<>>)
    /\ UNCHANGED <<host, engine, put, ncalls, pin, pout, pstage, tts_engine, keyVars>>

\* lines 172 and 208: f.write(audio) and the close that flushes it, after
\* which the provider's branch returns
CacheStore(p) ==
    LET c == call[p]
        cache_path == _get_cache_path(c.text, c.language, c.voice_id, c.speed)
    IN
    /\ c.pc = "cache_write"
    /\ \E w \in WriteOutcomes(host) :
         IF w = "error"
         THEN /\ Set(p, CacheFailed(c))
              /\ UNCHANGED cache
         ELSE /\ Set(p, [c EXCEPT !.pc = AfterSuccess(c.trace[Len(c.trace)].prov),
                                  !.wrote = TRUE])
              /\ cache' = CacheWrite(cache, cache_path, c.result.bytes)
    /\ UNCHANGED <<host, engine, put, ncalls, pin, pout, pstage, tts_engine, keyVars>>

\* what can happen to tts.save / the pydub conversion when a path is wanted:
\* a .wav path needs pydub, which may be missing (ImportError: the mp3 is
\* returned) or may fail (the exception reaches the gTTS handler)
GttsOutcomes(c) ==
    IF ~c.return_bytes /\ OutputPath(c) = "out.wav"
    THEN Outcomes \cup {"no_pydub", "convert_failed"}
    ELSE Outcomes

\* lines 224-283: gTTS, and in its exception handler the offline engine
TryGTTS(p) ==
    LET c == call[p] IN
    /\ c.pc = "gtts"
    /\ \E out \in GttsOutcomes(c) :
         LET got == Produced(IF out = "no_pydub" THEN "ok" ELSE out, GttsAudio(c))
             t == Append(c.trace, Attempt("gtts", out))
         IN IF out \in {"raise", "convert_failed"}
            THEN LET next == AfterGttsFailure(engine[1].offline_available) IN
                 IF next = "offline"
                 THEN Set(p, [c EXCEPT !.pc = next, !.trace = t])
                 ELSE Set(p, [c EXCEPT !.pc = next, !.trace = t,
                                       !.result = RaisedBy("SynthesisError", "gtts")])
            ELSE IF c.return_bytes
            THEN Set(p, [c EXCEPT !.pc = AfterSuccess("gtts"), !.trace = t,
                                  !.result = Bytes(got, "audio/mpeg")])
            ELSE Set(p, [c EXCEPT !.pc = AfterSuccess("gtts"), !.trace = t,
                                  !.result = Path(IF out = "no_pydub" THEN "out.mp3"
                                                  ELSE OutputPath(c), got)])
    /\ UNCHANGED <<host, engine, cache, put, ncalls, pin, pout, pstage, tts_engine, keyVars>>

\* lines 261-274 and _generate_offline
TryOffline(p) ==
    LET c == call[p] IN
    /\ c.pc = "offline"
    /\ \E out \in Outcomes :
         LET audio_bytes == Produced(out, OfflineAudio(c))
             t == Append(c.trace, Attempt("offline", out))
         IN IF out = "raise"
            THEN Set(p, [c EXCEPT !.pc = "return", !.trace = t,
                                  !.temps = MkTemp(c, "offline"),
                                  !.result = RaisedBy("SynthesisError", "offline")])
            ELSE IF c.return_bytes
            THEN Set(p, [c EXCEPT !.pc = AfterSuccess("offline"), !.trace = t,
                                  !.temps = RmTemp(MkTemp(c, "offline"), "offline"),
                                  !.result = Bytes(audio_bytes, "audio/wav")])
            ELSE Set(p, [c EXCEPT !.pc = AfterSuccess("offline"), !.trace = t,
                                  !.result = Path("out.wav", audio_bytes)])
    /\ UNCHANGED <<host, engine, cache, put, ncalls, pin, pout, pstage, tts_engine, keyVars>>

\* generate_speech is left; process_generate_request (lines 214-232) answers
\* with the audio, or with 500 for whatever exception the engine raised
HttpStatus(c) ==
    IF c.entry # "app" THEN 0
    ELSE IF c.result.kind = "error" THEN 500 ELSE 200

Return(p) ==
    LET c == call[p] IN
    /\ c.pc = "return"
    /\ Set(p, [c EXCEPT !.pc = "done", !.http = HttpStatus(c)])
    /\ put' = IF c.wrote THEN Record(put, c.key[1], c.result.bytes) ELSE put
    /\ UNCHANGED <<host, engine, cache, ncalls, pin, pout, pstage, tts_engine, keyVars>>

\* the caller has its answer; the thread is free again
Finish(p) ==
    /\ call[p].pc = "done"
    /\ Set(p, IdleCall)
    /\ UNCHANGED <<host, engine, cache, put, ncalls, pin, pout, pstage, tts_engine, keyVars>>

(***************************************************************************)
(* Specification: requests served one at a time                            *)
(***************************************************************************)
Init ==
    /\ host \in Hosts
    /\ engine = None
    /\ cache = EmptyMap
    /\ put = EmptyMap
    /\ call = [p \in Procs |-> IdleCall]
    /\ ncalls = 0
    /\ pin = <<>>
    /\ pout = <<>>
    /\ pstage = 0
    /\ tts_engine = None
    /\ keyfile = KeyFile("json", {FirstKey})
    /\ keylock = 0
    /\ ktask = [p \in Procs |-> IdleTask]
    /\ issued = {FirstKey}

Next ==
    \E p \in Procs :
        \/ (Sequential /\ AppRequest(p))
        \/ (Sequential /\ LanguageRoute(p))
        \/ (Sequential /\ EngineCall(p))
        \/ GetEngine(p)
        \/ GetTtsEngine(p)
        \/ EngineConstruct(p)
        \/ ReturnEngine(p)
        \/ UseEngine(p)
        \/ StreamAttempt(p)
        \/ GsValidate(p)
        \/ GsCacheCheck(p)
        \/ GsCacheRead(p)
        \/ GsLengthCheck(p)
        \/ TryXTTS(p)
        \/ TryEdge(p)
        \/ CacheOpen(p)
        \/ CacheStore(p)
        \/ TryGTTS(p)
        \/ TryOffline(p)
        \/ Return(p)
        \/ Finish(p)

Spec == Init /\ [][Next]_vars

(***************************************************************************)
(* Properties of generate_speech and of the request handler                *)
(***************************************************************************)
Returned(c) == c.pc \in {"return", "done"}

GotAudio(c) == c.result.kind \in {"bytes", "path"}

\* C1: a call that finds a cache entry for its fingerprint invokes no
\* provider and returns the bytes stored under that fingerprint.
CacheHitInvokesNoProvider ==
    \A p \in Procs :
        LET c == call[p] IN
        c.found =>
            /\ c.pc \in {"cache_read", "return", "done"}
            /\ c.trace = <<>>
            /\ Returned(c) =>
                   /\ c.hit
                   /\ GotAudio(c)
                   /\ c.result.bytes = cache[c.key[1]]

\* a call answered from the cache on a machine where every provider it
\* could have used is installed
CacheHitInvokesNoProviderWitness ==
    \E p \in Procs :
        LET c == call[p] IN
        /\ c.pc = "done"
        /\ c.found
        /\ c.result.kind = "bytes"
        /\ c.result.bytes # <<>>
        /\ c.voice_id # None
        /\ host.edge = "import"
        /\ host.offline

Rank(prov) ==
    CASE prov = "xtts" -> 1
      [] prov = "edge" -> 2
      [] prov = "gtts" -> 3
      [] prov = "offline" -> 4

\* an attempt the chain treats as failed: an exception inside the provider's
\* try block (Edge's empty-output check raises one)
Failed(a) ==
    \/ a.out \in {"raise", "unusable", "convert_failed", "cache_write_failed"}
    \/ a.prov = "edge" /\ a.out = "empty"

\* the bytes the provider of attempt a produced for call c
OutputOf(a, c) ==
    LET audio == CASE a.prov = "xtts" -> XttsAudio(c)
                   [] a.prov = "edge" -> EdgeAudio(c)
                   [] a.prov = "gtts" -> GttsAudio(c)
                   [] a.prov = "offline" -> OfflineAudio(c)
    IN Produced(IF a.out = "no_pydub" THEN "ok" ELSE a.out, audio)

\* C2: on a cache miss the providers are tried in the order XTTS, Edge TTS,
\* gTTS, offline, each at most once; every attempt before the last one
\* failed, and the call returns the output of the last one, which succeeded.
ProvidersTriedInOrderUntilFirstSuccess ==
    \A p \in Procs :
        LET c == call[p]
            t == c.trace
        IN
        /\ \A i, j \in DOMAIN t : i < j => Rank(t[i].prov) < Rank(t[j].prov)
        /\ \A i \in DOMAIN t : i < Len(t) => Failed(t[i])
        /\ (Returned(c) /\ ~c.hit /\ GotAudio(c)) =>
               /\ t # <<>>
               /\ ~Failed(t[Len(t)])
               /\ c.result.bytes = OutputOf(t[Len(t)], c)
        /\ (t # <<>> /\ ~Failed(t[Len(t)])) =>
               (Returned(c) \/ c.pc \in {"cache_open", "cache_write"})

\* provider 1 (Edge TTS) failed, provider 2 (gTTS) succeeded and its output
\* was returned, on a machine whose offline engine was available
ProvidersTriedInOrderUntilFirstSuccessWitness ==
    \E p \in Procs :
        LET c == call[p] IN
        /\ c.pc = "done"
        /\ host.offline
        /\ Len(c.trace) = 2
        /\ c.trace[1] = Attempt("edge", "raise")
        /\ c.trace[2] = Attempt("gtts", "ok")
        /\ c.result = Bytes(<<GttsAudio(c)>>, "audio/mpeg")

\* the providers of the chain for call c
Chain(c) ==
    (IF XttsApplies(c) THEN {"xtts"} ELSE {}) \cup
    (IF EdgeApplies(c) THEN {"edge"} ELSE {}) \cup
    {"gtts"} \cup
    (IF engine[1].offline_available THEN {"offline"} ELSE {})

\* C3: a call that got past validation ends in an error only if every
\* provider of its chain was tried in the call and failed.
ErrorOnlyIfEveryProviderFailed ==
    \A p \in Procs :
        LET c == call[p] IN
        (Returned(c) /\ c.result.kind = "error"
            /\ c.result.err \notin {"Rejected", "Unauthorized", "NotFound"}) =>
            \/ /\ c.result.err = "ValueError"
               /\ c.trace = <<>>
               /\ (Len(Strip(c.req_text)) = 0 \/ Len(c.text) > MAX_TEXT_LENGTH)
            \/ /\ c.result.err = "SynthesisError"
               /\ \A prov \in Chain(c) :
                      \E i \in DOMAIN c.trace : c.trace[i].prov = prov /\ Failed(c.trace[i])

\* every provider of a three-provider chain failed and the call raised
ErrorOnlyIfEveryProviderFailedWitness ==
    \E p \in Procs :
        LET c == call[p] IN
        /\ c.pc = "done"
        /\ Len(c.trace) = 3
        /\ c.result.err = "SynthesisError"

\* the request as it came in is one validation must refuse
Invalid(c) ==
    \/ Len(Strip(c.req_text)) = 0
    \/ Len(c.req_text) > MAX_TEXT_LENGTH
    \/ Len(c.text) > MAX_TEXT_LENGTH
    \/ c.language \notin SUPPORTED_LANGUAGES

\* C4: a request that fails validation (empty text, over-long text,
\* unsupported language) never causes a cache lookup or a provider call.
InvalidRequestReachesNothing ==
    \A p \in Procs :
        LET c == call[p] IN
        (c.pc # "idle" /\ Invalid(c)) => (~c.looked /\ c.trace = <<>>)

\* C5: a buffered call that missed the cache and returned non-empty audio leaves a
\* cache entry holding that audio under its fingerprint.
BufferedSuccessIsCached ==
    \A p \in Procs :
        LET c == call[p] IN
        (c.pc = "done" /\ c.return_bytes /\ ~c.hit /\ c.result.kind = "bytes"
            /\ c.result.bytes # <<>>) =>
            /\ c.key # None
            /\ c.key[1] \in DOMAIN cache
            /\ cache[c.key[1]] = c.result.bytes

\* C6: through the request handler a validation failure is answered with
\* 400 and a synthesis failure with 500, never the one with the other's status.
ValidationAndSynthesisErrorsDistinct ==
    \A p \in Procs :
        LET c == call[p] IN
        (c.pc = "done" /\ c.entry = "app" /\ c.result.kind = "error") =>
            /\ (c.result.err \in {"Rejected", "ValueError"}) <=> (c.http = 400)
            /\ (c.result.err = "SynthesisError") <=> (c.http = 500)

\* C7: a request whose text is longer than MAX_TEXT_LENGTH, as handed in or
\* after normalisation, ends in a validation error and never in audio.
OverLongTextIsRejected ==
    \A p \in Procs :
        LET c == call[p] IN
        (Returned(c) /\ (Len(c.req_text) > MAX_TEXT_LENGTH \/ Len(c.text) > MAX_TEXT_LENGTH)) =>
            /\ c.result.kind = "error"
            /\ c.result.err \in {"Rejected", "ValueError"}

\* C9: a cache hit returns exactly the bytes stored under its key, and those
\* are the bytes the call that wrote the entry returned to its own caller.
CacheRoundTrip ==
    /\ \A k \in DOMAIN put : k \in DOMAIN cache /\ cache[k] = put[k]
    /\ \A p \in Procs :
           LET c == call[p] IN
           (Returned(c) /\ c.hit) =>
               /\ c.key[1] \in DOMAIN put
               /\ c.result.bytes = put[c.key[1]]

\* a second call served from an entry that an earlier Edge TTS synthesis wrote
CacheRoundTripWitness ==
    \E p \in Procs :
        LET c == call[p] IN
        /\ c.pc = "done"
        /\ c.hit
        /\ c.result.kind = "bytes"
        /\ c.result.bytes = <<EdgeAudio(c)>>
        /\ put[c.key[1]] = <<EdgeAudio(c)>>

\* C14: a request that asked for a stream and whose streaming call failed
\* before any chunk is answered by the buffered path: 200 with the whole
\* output of the provider that succeeded (or the whole cache entry), or 500.
StreamFailureFallsBackToBuffer ==
    \A p \in Procs :
        LET c == call[p]
            t == c.trace
        IN
        (c.pc = "done" /\ c.streamed) =>
            \/ /\ c.http = 200
               /\ c.result.kind = "bytes"
               /\ \/ c.hit /\ c.result.bytes = cache[c.key[1]]
                  \/ /\ ~c.hit
                     /\ t # <<>>
                     /\ ~Failed(t[Len(t)])
                     /\ c.result.bytes = OutputOf(t[Len(t)], c)
            \/ /\ c.http = 500
               /\ c.result.kind = "error"

\* a stream request answered 200 with the audio Edge TTS synthesised
StreamFailureFallsBackToBufferWitness ==
    \E p \in Procs :
        LET c == call[p] IN
        /\ c.pc = "done"
        /\ c.stream
        /\ c.streamed
        /\ c.http = 200
        /\ c.trace = <<Attempt("edge", "ok")>>
        /\ c.result = Bytes(<<EdgeAudio(c)>>, "audio/mpeg")

\* C15: the streaming call is made only after a cache miss, never for a
\* request whose fingerprint has a cache entry.
StreamOnlyAfterCacheMiss ==
    \A p \in Procs :
        LET c == call[p] IN
        (c.streamed /\ c.pc = "generate") =>
            _get_cache_path(normalize_text(c.text, c.language), c.language,
                            c.voice_id, c.speed) \notin DOMAIN cache

\* C16: XTTS is invoked only with an initialised model and a speaker sample
\* that exists, Edge TTS only with a voice id and a backend detected at
\* construction; with neither sample nor voice id only gTTS is invoked and,
\* after its failure, the offline engine.
OnlyApplicableProvidersInvoked ==
    \A p \in Procs :
        LET c == call[p]
            t == c.trace
        IN
        /\ \A i \in DOMAIN t :
               /\ t[i].prov = "xtts" =>
                      /\ host.xtts
                      /\ c.speaker_wav # None
                      /\ c.speaker_wav[1] \in ExistingFiles
               /\ t[i].prov = "edge" =>
                      /\ c.voice_id # None
                      /\ engine[1].edge_tts_available
        /\ (c.speaker_wav = None /\ c.voice_id = None /\ t # <<>>) =>
               /\ t[1].prov = "gtts"
               /\ Len(t) <= 2
               /\ Len(t) = 2 => (Failed(t[1]) /\ t[2].prov = "offline")

\* with no sample and no voice id, on a machine that has XTTS and Edge TTS,
\* gTTS failed and the offline engine produced the audio
OnlyApplicableProvidersInvokedWitness ==
    \E p \in Procs :
        LET c == call[p] IN
        /\ c.pc = "done"
        /\ host.xtts
        /\ host.edge = "import"
        /\ c.speaker_wav = None
        /\ c.voice_id = None
        /\ c.trace = <<Attempt("gtts", "raise"), Attempt("offline", "ok")>>

\* C17: a call that returns normally returns (bytes, mimetype) when
\* return_bytes is set and a file path when it is not, whichever branch
\* produced the result.
ReturnShapeFollowsReturnBytes ==
    \A p \in Procs :
        LET c == call[p] IN
        (Returned(c) /\ c.result.kind # "error") =>
            IF c.return_bytes
            THEN /\ c.result.kind = "bytes"
                 /\ c.result.mime \in {"audio/mpeg", "audio/wav"}
                 /\ c.result.path = ""
            ELSE /\ c.result.kind = "path"
                 /\ c.result.path # ""
                 /\ c.result.mime = ""

\* a caller that asked for a path and was served from the cache
ReturnShapeFollowsReturnBytesWitness ==
    \E p \in Procs :
        LET c == call[p] IN
        /\ c.pc = "done"
        /\ c.hit
        /\ ~c.return_bytes
        /\ c.result.kind = "path"
        /\ c.result.bytes # <<>>

\* C19: audio served from the cache was synthesised for the request shape of
\* the call that receives it: same text, and the same speaker sample (or none).
CachedAudioMatchesRequest ==
    \A p \in Procs :
        LET c == call[p] IN
        (Returned(c) /\ c.hit) =>
            \A i \in DOMAIN c.result.bytes :
                /\ c.result.bytes[i].text = c.text
                /\ c.result.bytes[i].speaker = c.speaker_wav

\* C21: a cache hit carries the format tag that the synthesis which created
\* the entry returned with the same bytes.
CacheHitKeepsFormatTag ==
    \A p \in Procs :
        LET c == call[p] IN
        (Returned(c) /\ c.hit /\ c.return_bytes /\ c.result.bytes # <<>>) =>
            c.result.mime = MimeOf(c.result.bytes[1].by)

\* C22: no call returns a zero-length audio payload and none is recorded as
\* written to the cache: a provider that produced nothing counts as failed.
EmptyOutputIsFailure ==
    /\ \A p \in Procs :
           LET c == call[p] IN
           (Returned(c) /\ GotAudio(c)) => c.result.bytes # <<>>
    /\ \A k \in DOMAIN put : put[k] # <<>>

\* C27: the Edge TTS flag is set exactly when a detection strategy succeeded,
\* and an Edge attempt made because of the flag finds the library usable.
AvailableEdgeIsUsable ==
    /\ engine # None => (engine[1].edge_tts_available <=> host.edge # "none")
    /\ \A p \in Procs :
           \A i \in DOMAIN call[p].trace :
               call[p].trace[i].prov = "edge" => call[p].trace[i].out # "unusable"

\* C28: for a request in a supported language gTTS is called with that language.
GttsUsesRequestLanguage ==
    \A p \in Procs :
        LET c == call[p] IN
        (Returned(c) /\ ~c.hit /\ GotAudio(c) /\ c.result.bytes # <<>>
            /\ c.result.bytes[1].by = "gtts" /\ c.language \in SUPPORTED_LANGUAGES) =>
            c.result.bytes[1].language = c.language

\* C24: the offline engine is invoked in a call exactly when gTTS failed in
\* that call and the offline engine initialised, after every applicable
\* earlier provider was tried and failed; its failure is the call's error, and
\* when it did not initialise the gTTS error is the call's error.
OfflineIsLastResort ==
    \A p \in Procs :
        LET c == call[p]
            t == c.trace
        IN \A i \in DOMAIN t :
            /\ t[i].prov = "offline" =>
                   /\ i = Len(t)
                   /\ i > 1
                   /\ t[i - 1].prov = "gtts"
                   /\ \A j \in 1..(i - 1) : Failed(t[j])
                   /\ engine[1].offline_available
                   /\ XttsApplies(c) => \E j \in 1..(i - 1) : t[j].prov = "xtts"
                   /\ EdgeApplies(c) => \E j \in 1..(i - 1) : t[j].prov = "edge"
                   /\ t[i].out = "raise" =>
                          (Returned(c) /\ c.result = RaisedBy("SynthesisError", "offline"))
            /\ (t[i].prov = "gtts" /\ Failed(t[i])) =>
                   IF engine[1].offline_available
                   THEN \/ c.pc = "offline" /\ i = Len(t)
                        \/ i + 1 = Len(t) /\ t[i + 1].prov = "offline"
                   ELSE /\ i = Len(t)
                        /\ Returned(c)
                        /\ c.result = RaisedBy("SynthesisError", "gtts")
            /\ (t[i].prov = "gtts" /\ ~Failed(t[i])) => i = Len(t)

\* Edge TTS and gTTS failed, the offline engine was tried last, failed too, and
\* its exception is what the call ended with
OfflineIsLastResortWitness ==
    \E p \in Procs :
        LET c == call[p] IN
        /\ c.pc = "done"
        /\ Len(c.trace) = 3
        /\ c.trace[1] = Attempt("edge", "raise")
        /\ c.trace[2] = Attempt("gtts", "raise")
        /\ c.trace[3] = Attempt("offline", "raise")
        /\ c.result = RaisedBy("SynthesisError", "offline")

\* the text generate_speech was called with: the handler strips the request's
RawText(c) == IF c.entry = "app" THEN Strip(c.req_text) ELSE c.req_text

\* C25: a generate_speech call normalizes its text exactly once, and that
\* normalized string is the one the length check, the cache fingerprint
\* (lookup and write) and every provider of the call use, also when the call
\* follows a failed streaming attempt.
TextNormalizedOnce ==
    \A p \in Procs :
        LET c == call[p]
            norm == normalize_text(RawText(c), c.language)
            cache_path == _get_cache_path(norm, c.language, c.voice_id, c.speed)
        IN
        /\ c.nnorm <= 1
        /\ c.pc \in {"cache_check", "cache_read", "length_check", "xtts", "edge",
                     "cache_open", "cache_write", "gtts", "offline"} =>
               (c.nnorm = 1 /\ c.text = norm)
        /\ c.looked => (c.nnorm = 1 /\ c.key = Some(cache_path))
        /\ c.pc = "cache_write" => cache_path \in DOMAIN cache
        /\ (Returned(c) /\ c.wrote) => (cache_path \in DOMAIN cache /\ c.key = Some(cache_path))
        /\ (Returned(c) /\ c.nnorm = 1 /\ c.result.kind = "error" /\ c.result.err = "ValueError") =>
               (c.trace = <<>> /\ Len(norm) > MAX_TEXT_LENGTH)
        /\ c.pc \in {"xtts", "edge", "gtts", "offline"} => Len(norm) <= MAX_TEXT_LENGTH
        /\ c.trace # <<>> => c.nnorm = 1
        /\ (Returned(c) /\ ~c.hit /\ GotAudio(c) /\ c.result.bytes # <<>>) =>
               c.result.bytes[1].text = norm

\* a request whose text changes under normalization, served through the
\* buffered path after the streaming attempt failed, synthesised and cached
TextNormalizedOnceWitness ==
    \E p \in Procs :
        LET c == call[p] IN
        /\ c.pc = "done"
        /\ c.streamed
        /\ c.nnorm = 1
        /\ c.text # RawText(c)
        /\ c.wrote
        /\ c.result.kind = "bytes"
        /\ c.result.bytes # <<>>
        /\ c.result.bytes[1].text = c.text

\* C30: on every generation route a request whose key is not one that was
\* issued is answered with 401, and nothing of it is validated, no engine is
\* fetched, no cache entry looked up or written and no provider invoked; a
\* request with an issued key is never answered with 401.
ApiKeyCheckedFirst ==
    \A p \in Procs :
        LET c == call[p] IN
        (c.entry = "app" /\ c.pc # "idle") =>
            IF c.api_key = None \/ c.api_key[1] \notin issued
            THEN /\ c.pc = "done"
                 /\ c.http = 401
                 /\ c.result = Raised("Unauthorized")
                 /\ c.req_text = <<>> /\ c.text = <<>> /\ c.nnorm = 0
                 /\ c.eng = None
                 /\ ~c.looked /\ ~c.wrote /\ c.key = None
                 /\ c.trace = <<>>
            ELSE c.http # 401

\* the first request of a server carries a key that was never issued: it is
\* answered with 401 while the engine is still unbuilt and the cache empty
ApiKeyCheckedFirstWitness ==
    \E p \in Procs :
        LET c == call[p] IN
        /\ c.pc = "done"
        /\ c.api_key = Some(BogusKey)
        /\ c.http = 401
        /\ engine = None
        /\ tts_engine = None
        /\ cache = EmptyMap

\* C31: when a call that wanted bytes has returned or raised, none of the
\* temporary files it created for XTTS or the offline engine is left.
NoTempFileRemains ==
    \A p \in Procs :
        LET c == call[p] IN
        (Returned(c) /\ c.return_bytes) => c.temps = {}

(***************************************************************************)
(* Specification: the same requests on a machine whose cache directory     *)
(* can fail (OSError on open, read or write)                               *)
(***************************************************************************)
InitFault ==
    /\ host \in FaultHosts
    /\ engine = None
    /\ cache = EmptyMap
    /\ put = EmptyMap
    /\ call = [p \in Procs |-> IdleCall]
    /\ ncalls = 0
    /\ pin = <<>>
    /\ pout = <<>>
    /\ pstage = 0
    /\ tts_engine = None
    /\ keyfile = KeyFile("json", {FirstKey})
    /\ keylock = 0
    /\ ktask = [p \in Procs |-> IdleTask]
    /\ issued = {FirstKey}

SpecFault == InitFault /\ [][Next]_vars

\* C12: a call that found a cache entry and could not read it goes on to the
\* provider chain like a miss; the storage error never reaches the caller.
CacheReadErrorIsMiss ==
    \A p \in Procs :
        LET c == call[p] IN
        (Returned(c) /\ c.found /\ ~c.hit) =>
            /\ c.result # Raised("OSError")
            /\ c.trace # <<>>

\* C13: when the cache write after a provider's success fails, no further
\* provider is invoked and the call returns that provider's audio.
CacheWriteErrorIsSwallowed ==
    \A p \in Procs :
        LET c == call[p]
            t == c.trace
        IN \A i \in DOMAIN t :
               t[i].out = "cache_write_failed" =>
                   /\ i = Len(t)
                   /\ Returned(c) =>
                          /\ c.result.kind = "bytes"
                          /\ c.result.bytes # <<>>
                          /\ c.result.bytes[1].by = t[i].prov

(***************************************************************************)
(* Specification: requests served concurrently by the threads of the       *)
(* server, every step of generate_speech interleaved with the others'      *)
(***************************************************************************)
ConcTexts == { <<"h","i">> }

ConcLanguages == { En, Ta }

\* a request of the /api/generate route that passes the handler's validation
ConcurrentRequest(p) ==
    /\ CanBegin(p)
    /\ \E req_text \in ConcTexts, language \in ConcLanguages :
         Set(p, [IdleCall EXCEPT !.pc = "get_engine", !.entry = "app",
                                 !.api_key = Some(FirstKey),
                                 !.req_text = req_text, !.text = Strip(req_text),
                                 !.language = language,
                                 !.speed = Clamp(MIN_SPEED, MAX_SPEED, 100),
                                 !.voice_id = get_voice_id(language, <<>>),
                                 !.return_bytes = TRUE])
    /\ ncalls' = ncalls + 1
    /\ UNCHANGED <<host, engine, cache, put, pin, pout, pstage, tts_engine, keyVars>>

NextConc ==
    \E p \in Procs :
        \/ ConcurrentRequest(p)
        \/ GetEngine(p)
        \/ GetTtsEngine(p)
        \/ EngineConstruct(p)
        \/ ReturnEngine(p)
        \/ UseEngine(p)
        \/ GsValidate(p)
        \/ GsCacheCheck(p)
        \/ GsCacheRead(p)
        \/ GsLengthCheck(p)
        \/ TryXTTS(p)
        \/ TryEdge(p)
        \/ CacheOpen(p)
        \/ CacheStore(p)
        \/ TryGTTS(p)
        \/ TryOffline(p)
        \/ Return(p)
        \/ Finish(p)

SpecConc == Init /\ [][NextConc]_vars

\* C18: whatever the interleaving, a payload returned from the cache is the
\* whole output of a synthesis, never an empty or half-written file.
CacheHitIsComplete ==
    \A p \in Procs :
        LET c == call[p] IN
        (Returned(c) /\ c.hit) =>
            /\ c.result.bytes # <<>>
            /\ c.result.bytes = <<EdgeAudio(c)>>

\* C20: once a synthesis has written the entry of a fingerprint, the payload
\* stored for that fingerprint never changes.
CacheEntryImmutable ==
    [][\A k \in DOMAIN cache :
           cache[k] # <<>> => (k \in DOMAIN cache' /\ cache'[k] = cache[k])]_vars

\* C23: under any interleaving of first requests the TTSEngine is constructed
\* at most once, and every request uses that one instance.
EngineConstructedOnce ==
    /\ engine # None => engine[1].id = 1
    /\ tts_engine # None => tts_engine[1].id = 1
    /\ \A p \in Procs : call[p].eng # None => call[p].eng[1].id = 1

(***************************************************************************)
(* Inputs of the normaliser under test: texts assembled from pieces        *)
(***************************************************************************)
MaxPieces == 3

Pieces ==
    { <<"B","a","n","d","h","a","n","N","o","v","a">>,
      <<"B","a","n","d","h","a","N","o","v","a">>,
      <<"b","a","n","d","h","a","n","n","o","v","a">>,
      <<"B","a","n","d","h","a">>,
      <<"N","o","v","a">>,
      <<"A","B">>,
      <<"R","O","I">>,
      <<"A","B","C","D","E">>,
      <<"A">>,
      <<"x">>,
      <<"1">>,
      <<" ">>,
      <<"\t">>,
      <<"-">> }

RECURSIVE TextsOf(_)
TextsOf(n) ==
    IF n = 0 THEN { <<>> }
    ELSE LET shorter == TextsOf(n - 1) IN
         shorter \cup { t \o p : t \in shorter, p \in Pieces }

NormLanguages == { <<"e","n">>, <<"b","n">> }

(***************************************************************************)
(* Specification of the normaliser applied once and then again             *)
(***************************************************************************)
IdleEngineState ==
    /\ host = None
    /\ engine = None
    /\ cache = EmptyMap
    /\ put = EmptyMap
    /\ call = <<>>
    /\ ncalls = 0
    /\ tts_engine = None
    /\ keyfile = KeyFile("absent", {})
    /\ keylock = 0
    /\ ktask = <<>>
    /\ issued = {}

InitNorm ==
    /\ IdleEngineState
    /\ pin \in [text : TextsOf(MaxPieces), language : NormLanguages]
    /\ pout = <<>>
    /\ pstage = 0

NormalizeOnce ==
    /\ pstage = 0
    /\ pout' = <<normalize_text(pin.text, pin.language)>>
    /\ pstage' = 1
    /\ UNCHANGED <<host, engine, cache, put, call, ncalls, pin, tts_engine, keyVars>>

NormalizeAgain ==
    /\ pstage = 1
    /\ pout' = Append(pout, normalize_text(pout[1], pin.language))
    /\ pstage' = 2
    /\ UNCHANGED <<host, engine, cache, put, call, ncalls, pin, tts_engine, keyVars>>

NextNorm == NormalizeOnce \/ NormalizeAgain

SpecNorm == InitNorm /\ [][NextNorm]_vars

\* C10: normalising an already normalised text changes nothing.
NormalizeIdempotent == pstage = 2 => pout[2] = pout[1]

\* a text where a brand correction and an acronym expansion both fired and
\* whitespace was collapsed, normalised twice
NormalizeIdempotentWitness ==
    /\ pstage = 2
    /\ pin.text = <<"B","a","n","d","h","a","n","N","o","v","a","\t","R","O","I">>
    /\ pout[1] = <<"B","a","n","d","h","a","n"," ","N","o","v","a"," ","R"," ","O"," ","I">>

\* whether some key of PRONUNCIATION_MAP occurs in the text, in any casing
HasBrand(text) ==
    \E k \in DOMAIN PRONUNCIATION_MAP, i \in DOMAIN text :
        MatchAt(text, i, PRONUNCIATION_MAP[k][1])

\* index just after the maximal run of word characters that starts at i
RECURSIVE WordRunEnd(_, _)
WordRunEnd(text, i) ==
    IF i <= Len(text) /\ IsWord(text[i]) THEN WordRunEnd(text, i + 1) ELSE i

\* a standalone token made of 2 to 4 letters A-Z
IsAcronymToken(w) == Len(w) \in 2..4 /\ \A j \in DOMAIN w : IsUpperAZ(w[j])

\* the letters of w with one space between neighbours
RECURSIVE Spaced(_)
Spaced(w) == IF Len(w) <= 1 THEN w ELSE <<w[1], " ">> \o Spaced(Tail(w))

\* the text with every standalone acronym token spelled out and every other
\* token, and everything between tokens, kept
RECURSIVE RewriteTokens(_, _)
RewriteTokens(text, i) ==
    IF i > Len(text) THEN <<>>
    ELSE IF IsWord(text[i])
         THEN LET e == WordRunEnd(text, i)
                  w == SubSeq(text, i, e - 1)
              IN (IF IsAcronymToken(w) THEN Spaced(w) ELSE w) \o RewriteTokens(text, e)
         ELSE <<text[i]>> \o RewriteTokens(text, i + 1)

\* C11: in a text without a brand name, normalize_text spells out exactly the
\* standalone upper-case tokens of 2 to 4 letters and keeps every other token
\* (whitespace between tokens is collapsed and the ends are stripped).
AcronymsSpacedOthersKept ==
    (pstage >= 1 /\ ~HasBrand(pin.text)) =>
        pout[1] = Strip(CollapseFrom(RewriteTokens(pin.text, 1), 1))

\* a five-letter upper-case run kept next to a three-letter acronym spelled out
AcronymsSpacedOthersKeptWitness ==
    /\ pstage = 1
    /\ pin.text = <<"A","B","C","D","E"," ","R","O","I">>
    /\ pout[1] = <<"A","B","C","D","E"," ","R"," ","O"," ","I">>

(***************************************************************************)
(* Inputs of the fingerprint under test                                    *)
(***************************************************************************)
KeyTexts == { <<"a">>, <<"a","|","e","n">>, <<"h","i">> }

KeyLanguages == { <<"e","n">>, <<"b","n">>, <<"e","n","|","e","n">> }

KeyVoices == { None, Some(<<"v","1">>) }

KeySpeeds == { 50, 100, 125 }

KeyTuples ==
    [text : KeyTexts, language : KeyLanguages, voice_id : KeyVoices, speed : KeySpeeds]

InitKey ==
    /\ IdleEngineState
    /\ pin \in [a : KeyTuples, b : KeyTuples]
    /\ pout = <<>>
    /\ pstage = 0

ComputeKeys ==
    /\ pstage = 0
    /\ pout' = <<_get_cache_path(pin.a.text, pin.a.language, pin.a.voice_id, pin.a.speed),
                 _get_cache_path(pin.b.text, pin.b.language, pin.b.voice_id, pin.b.speed)>>
    /\ pstage' = 1
    /\ UNCHANGED <<host, engine, cache, put, call, ncalls, pin, tts_engine, keyVars>>

NextKey == ComputeKeys

SpecKey == InitKey /\ [][NextKey]_vars

\* C8: identical (text, language, voice_id, speed) give the identical key and
\* distinct ones give distinct keys, whatever characters the fields hold.
FingerprintInjective ==
    pstage = 1 => ((pin.a = pin.b) <=> (pout[1] = pout[2]))

(***************************************************************************)
(* Specification of the speed a request asks for: clamped by the handler,  *)
(* then turned into the Edge TTS rate string and the gTTS slow flag        *)
(***************************************************************************)
\* requested speeds, in percent, run from -MaxRequestSpeed to MaxRequestSpeed
MaxRequestSpeed == 300

RequestSpeeds == (0 - MaxRequestSpeed)..MaxRequestSpeed

InitSpeed ==
    /\ IdleEngineState
    /\ pin \in RequestSpeeds
    /\ pout = <<>>
    /\ pstage = 0

\* process_generate_request, line 180
ClampSpeed ==
    /\ pstage = 0
    /\ pout' = [speed |-> Clamp(MIN_SPEED, MAX_SPEED, pin), rate_pct |-> 0,
                rate_str |-> <<>>, slow |-> FALSE]
    /\ pstage' = 1
    /\ UNCHANGED <<host, engine, cache, put, call, ncalls, pin, tts_engine, keyVars>>

\* generate_speech, lines 187-188, on the speed the handler passes
EdgeRate ==
    /\ pstage = 1
    /\ pout' = [pout EXCEPT !.rate_pct = RatePct(pout.speed), !.rate_str = RateStr(pout.speed)]
    /\ pstage' = 2
    /\ UNCHANGED <<host, engine, cache, put, call, ncalls, pin, tts_engine, keyVars>>

\* generate_speech, line 231, on the speed the handler passes
GttsSlow ==
    /\ pstage = 2
    /\ pout' = [pout EXCEPT !.slow = Slow(pout.speed)]
    /\ pstage' = 3
    /\ UNCHANGED <<host, engine, cache, put, call, ncalls, pin, tts_engine, keyVars>>

NextSpeed == ClampSpeed \/ EdgeRate \/ GttsSlow

SpecSpeed == InitSpeed /\ [][NextSpeed]_vars

\* C26: whatever speed is requested, the handler passes on a speed within
\* [MIN_SPEED, MAX_SPEED] (the requested one when it lies inside, else the
\* nearer end), so the Edge TTS rate lies in [-50, +100] percent and is
\* written with a '+' exactly when it is >= 0, and gTTS is slow exactly when
\* the clamped speed is below 80 percent.
SpeedClampedBeforeUse ==
    /\ pstage >= 1 =>
           /\ pout.speed >= MIN_SPEED /\ pout.speed <= MAX_SPEED
           /\ (pin >= MIN_SPEED /\ pin <= MAX_SPEED) => pout.speed = pin
           /\ pin < MIN_SPEED => pout.speed = MIN_SPEED
           /\ pin > MAX_SPEED => pout.speed = MAX_SPEED
    /\ pstage >= 2 =>
           /\ pout.rate_pct >= 0 - 50 /\ pout.rate_pct <= 100
           /\ pout.rate_pct = pout.speed - 100
           /\ (Head(pout.rate_str) = "+") <=> (pout.rate_pct >= 0)
           /\ (Head(pout.rate_str) = "-") <=> (pout.rate_pct < 0)
           /\ pout.rate_str[Len(pout.rate_str)] = "%"
           /\ pout.rate_str = (IF pout.rate_pct >= 0 THEN <<"+">> ELSE <<"-">>)
                                  \o FmtNat(IF pout.rate_pct >= 0 THEN pout.rate_pct
                                            ELSE 0 - pout.rate_pct) \o <<"%">>
    /\ pstage >= 3 => (pout.slow <=> pout.speed < 80)

\* a request far below the range: clamped to the minimum, rate -50%, slow
SpeedClampedBeforeUseWitness ==
    /\ pstage = 3
    /\ pin < MIN_SPEED - 100
    /\ pout.speed = MIN_SPEED
    /\ pout.rate_str = <<"-", "5", "0", "%">>
    /\ pout.slow

(***************************************************************************)
(* Specification of api_keys.py: threads of the server creating and        *)
(* checking API keys, every step interleaved with the other threads'       *)
(***************************************************************************)
MaxKeyOps == 3

InitApiKeys ==
    /\ host = None
    /\ engine = None
    /\ cache = EmptyMap
    /\ put = EmptyMap
    /\ call = <<>>
    /\ ncalls = 0
    /\ pin = <<>>
    /\ pout = <<>>
    /\ pstage = 0
    /\ tts_engine = None
    /\ keylock = 0
    /\ ktask = [p \in Procs |-> IdleTask]
    /\ \/ keyfile = KeyFile("absent", {}) /\ issued = {}
       \/ keyfile = KeyFile("json", {FirstKey}) /\ issued = {FirstKey}

SetTask(p, t) == ktask' = [ktask EXCEPT ![p] = t]

\* the next draw of secrets.token_urlsafe(32)
NewToken ==
    LET drawn == issued \cup {FirstKey}
                     \cup UNION {IF ktask[q].op = "create" /\ ktask[q].key # None
                                 THEN {ktask[q].key[1]} ELSE {} : q \in Procs}
    IN (CHOOSE k \in drawn : \A j \in drawn : j <= k) + 1

\* POST /api/keys/create: create_api_key is entered
CreateBegin(p) ==
    /\ ktask[p].pc = "idle"
    /\ ncalls < MaxKeyOps
    /\ SetTask(p, [IdleTask EXCEPT !.pc = "acquire", !.op = "create"])
    /\ ncalls' = ncalls + 1
    /\ UNCHANGED <<host, engine, cache, put, call, pin, pout, pstage, tts_engine,
                   keyfile, keylock, issued>>

\* is_valid_key(key), lines 39-40: an empty key is refused before the lock
ValidBegin(p) ==
    /\ ktask[p].pc = "idle"
    /\ ncalls < MaxKeyOps
    /\ \E key \in {None, Some(BogusKey)} \cup {Some(k) : k \in issued} :
         IF key = None
         THEN SetTask(p, [IdleTask EXCEPT !.pc = "done", !.op = "valid", !.ret = "false"])
         ELSE SetTask(p, [IdleTask EXCEPT !.pc = "acquire", !.op = "valid", !.key = key,
                                          !.known = (key[1] \in issued)])
    /\ ncalls' = ncalls + 1
    /\ UNCHANGED <<host, engine, cache, put, call, pin, pout, pstage, tts_engine,
                   keyfile, keylock, issued>>

LockFreeAlways(lock) == TRUE

\* threading.Lock: acquire blocks while another thread holds the lock
LockFree(lock) == lock = 0

\* with _LOCK: (lines 27, 41)
Acquire(p) ==
    /\ ktask[p].pc = "acquire"
    /\ LockFree(keylock)
    /\ keylock' = p
    /\ SetTask(p, [ktask[p] EXCEPT !.pc = "load"])
    /\ UNCHANGED <<host, engine, cache, put, call, ncalls, pin, pout, pstage, tts_engine,
                   keyfile, issued>>

\* _load_keys (lines 14-18), then lines 29-33 of create_api_key or line 43 of
\* is_valid_key; json.load of a file that is not JSON raises, the with
\* statement releases the lock and the exception leaves the function
LoadKeys(p) ==
    LET t == ktask[p]
        keys == IF keyfile.state = "absent" THEN {} ELSE keyfile.keys
    IN
    /\ t.pc = "load"
    /\ IF keyfile.state = "empty"
       THEN /\ SetTask(p, [t EXCEPT !.pc = "done", !.ret = "error"])
            /\ keylock' = IF keylock = p THEN 0 ELSE keylock
       ELSE IF t.op = "create"
       THEN /\ SetTask(p, [t EXCEPT !.pc = "save_open", !.key = Some(NewToken),
                                    !.keys = keys \cup {NewToken}])
            /\ UNCHANGED keylock
       ELSE /\ SetTask(p, [t EXCEPT !.pc = "release", !.keys = keys,
                                    !.ret = IF t.key[1] \in keys THEN "true" ELSE "false"])
            /\ UNCHANGED keylock
    /\ UNCHANGED <<host, engine, cache, put, call, ncalls, pin, pout, pstage, tts_engine,
                   keyfile, issued>>

\* _save_keys, line 22: open(_KEYS_FILE, "w") creates or truncates the file
SaveOpen(p) ==
    /\ ktask[p].pc = "save_open"
    /\ keyfile' = KeyFile("empty", {})
    /\ SetTask(p, [ktask[p] EXCEPT !.pc = "save_dump"])
    /\ UNCHANGED <<host, engine, cache, put, call, ncalls, pin, pout, pstage, tts_engine,
                   keylock, issued>>

\* _save_keys, line 23: json.dump(keys, handle) and the close that flushes it
SaveDump(p) ==
    /\ ktask[p].pc = "save_dump"
    /\ keyfile' = KeyFile("json", ktask[p].keys)
    /\ SetTask(p, [ktask[p] EXCEPT !.pc = "release", !.ret = "key"])
    /\ UNCHANGED <<host, engine, cache, put, call, ncalls, pin, pout, pstage, tts_engine,
                   keylock, issued>>

\* the with block is left: the lock is released and the function returns
\* (line 35: the new key; line 43: key in keys)
Release(p) ==
    LET t == ktask[p] IN
    /\ t.pc = "release"
    /\ keylock' = IF keylock = p THEN 0 ELSE keylock
    /\ issued' = IF t.op = "create" THEN issued \cup {t.key[1]} ELSE issued
    /\ SetTask(p, [t EXCEPT !.pc = "done"])
    /\ UNCHANGED <<host, engine, cache, put, call, ncalls, pin, pout, pstage, tts_engine,
                   keyfile>>

\* the caller has its answer; the thread is free again
TaskFinish(p) ==
    /\ ktask[p].pc = "done"
    /\ SetTask(p, IdleTask)
    /\ UNCHANGED <<host, engine, cache, put, call, ncalls, pin, pout, pstage, tts_engine,
                   keyfile, keylock, issued>>

NextApiKeys ==
    \E p \in Procs :
        \/ CreateBegin(p)
        \/ ValidBegin(p)
        \/ Acquire(p)
        \/ LoadKeys(p)
        \/ SaveOpen(p)
        \/ SaveDump(p)
        \/ Release(p)
        \/ TaskFinish(p)

SpecApiKeys == InitApiKeys /\ [][NextApiKeys]_vars

\* C29: whatever the interleaving of create_api_key and is_valid_key calls,
\* a key that create_api_key has returned is accepted by every is_valid_key
\* call made afterwards, and the key file, whenever no thread is rewriting
\* it, holds every key returned so far.
IssuedKeysStayValid ==
    /\ \A p \in Procs :
           LET t == ktask[p] IN
           /\ (t.pc = "done" /\ t.op = "valid" /\ t.known) => t.ret = "true"
           /\ t.pc = "done" => t.ret # "error"
    /\ keylock = 0 =>
           /\ keyfile.state # "empty"
           /\ issued # {} => (keyfile.state = "json" /\ issued \subseteq keyfile.keys)

\* two keys created by different threads, and the first of them accepted by a
\* check that ran after the second was added to the file
IssuedKeysStayValidWitness ==
    \E p \in Procs :
        LET t == ktask[p] IN
        /\ t.pc = "done"
        /\ t.op = "valid"
        /\ t.known
        /\ t.ret = "true"
        /\ t.key # Some(FirstKey)
        /\ \E k \in issued : k > t.key[1]
        /\ Cardinality(t.keys) >= 2

(***************************************************************************)
(* Specification of _generate_edge: the chunks of communicate.stream()     *)
(* gathered into one buffer                                                *)
(***************************************************************************)
MaxChunks == 3

\* bytes are small numbers; a chunk has a type and a payload
ChunkData == { <<1>>, <<2, 3>> }

Chunks == [type : {"audio", "WordBoundary"}, data : ChunkData]

ChunkSeqs(n) == UNION {[1..k -> Chunks] : k \in 0..n}

\* line 193: audio_data = b"", before the first chunk is awaited
InitChunks ==
    /\ IdleEngineState
    /\ pin \in ChunkSeqs(MaxChunks)
    /\ pout = [audio_data |-> <<>>, state |-> "reading"]
    /\ pstage = 0

IsAnyChunk(chunk) == TRUE

\* line 195: if chunk["type"] == "audio"
IsAudioChunk(chunk) == chunk.type = "audio"

\* lines 194-196: the next chunk arrives; audio data is appended to the buffer
EdgeChunk ==
    /\ pout.state = "reading"
    /\ pstage < Len(pin)
    /\ LET chunk == pin[pstage + 1] IN
       pout' = [pout EXCEPT !.audio_data = IF IsAudioChunk(chunk) THEN @ \o chunk.data ELSE @]
    /\ pstage' = pstage + 1
    /\ UNCHANGED <<host, engine, cache, put, call, ncalls, pin, tts_engine, keyVars>>

\* line 197: the stream is exhausted, return audio_data
EdgeStreamEnds ==
    /\ pout.state = "reading"
    /\ pstage = Len(pin)
    /\ pout' = [pout EXCEPT !.state = "returned"]
    /\ UNCHANGED <<host, engine, cache, put, call, ncalls, pin, pstage, tts_engine, keyVars>>

\* communicate.stream() raises (the connection breaks): no buffer is returned
EdgeStreamRaises ==
    /\ pout.state = "reading"
    /\ pout' = [pout EXCEPT !.state = "raised"]
    /\ UNCHANGED <<host, engine, cache, put, call, ncalls, pin, pstage, tts_engine, keyVars>>

NextChunks == EdgeChunk \/ EdgeStreamEnds \/ EdgeStreamRaises

SpecChunks == InitChunks /\ [][NextChunks]_vars

\* number of audio bytes in the first n chunks of the response
RECURSIVE AudioLen(_, _)
AudioLen(chunks, n) ==
    IF n = 0 THEN 0
    ELSE AudioLen(chunks, n - 1) + (IF chunks[n].type = "audio" THEN Len(chunks[n].data) ELSE 0)

\* C32: the buffer _generate_edge returns holds the data of every audio chunk
\* of the response, each exactly once and in arrival order, and nothing else:
\* the data of the i-th chunk, when it is audio, stands right after the audio
\* data of the chunks before it, and the length of the buffer is the total
\* length of the audio data.
EdgeBufferIsAudioInOrder ==
    LET buf == pout.audio_data IN
    /\ Len(buf) = AudioLen(pin, pstage)
    /\ \A i \in 1..pstage :
           pin[i].type = "audio" =>
               SubSeq(buf, AudioLen(pin, i - 1) + 1, AudioLen(pin, i)) = pin[i].data
    /\ pout.state = "returned" => pstage = Len(pin)

\* a response of an audio chunk, a word boundary and another audio chunk was
\* read to its end: the buffer is the two audio payloads, in order
EdgeBufferIsAudioInOrderWitness ==
    /\ pout.state = "returned"
    /\ pin = << [type |-> "audio", data |-> <<2, 3>>],
                [type |-> "WordBoundary", data |-> <<1>>],
                [type |-> "audio", data |-> <<1>>] >>
    /\ pout.audio_data = <<2, 3, 1>>

=============================================================================
